---- MODULE Spec2Model ----
(***************************************************************************)
(* Model of src/Edge/Robert.cpp: the Robert edge detection plug-in.        *)
(*                                                                         *)
(* Robert::execute is modelled as a sequential program whose position is   *)
(* pc; every step is one action translated from the statements it covers.  *)
(* The only other actor is the host, which may call abort() at any time    *)
(* (action Abort) and whose data accessors may stop being valid.           *)
(***************************************************************************)
EXTENDS Integers, Naturals, Sequences, FiniteSets, TLC

(***************************************************************************)
(* Bounds of the model.                                                    *)
(***************************************************************************)
MaxRows == 2
MaxCols == 2
\* how many times the read accessor may fail to serve a position in one run
MaxSrcFailures == 1

(***************************************************************************)
(* EncodingType, as tested by execute (lines 125) and switchOnEncoding.    *)
(***************************************************************************)
ComplexEncodings == {"INT4SCOMPLEX", "FLT8COMPLEX"}
IntegerEncodings == {"INT1SBYTE", "INT1UBYTE", "INT2SBYTES", "INT2UBYTES",
                     "INT4SBYTES", "INT4UBYTES"}
FloatEncodings == {"FLT4BYTES", "FLT8BYTES"}
Encodings == IntegerEncodings \cup FloatEncodings \cup ComplexEncodings

\* Largest and smallest value of the C++ type T that switchOnEncoding selects.
\* The 32-bit types are capped at the largest integer the checker computes
\* with; no sample or magnitude of the model comes near it.
TMax(T) ==
    CASE T = "INT1SBYTE"  -> 127
      [] T = "INT1UBYTE"  -> 255
      [] T = "INT2SBYTES" -> 32767
      [] T = "INT2UBYTES" -> 65535
      [] OTHER            -> 2147483647

TMin(T) ==
    CASE T = "INT1SBYTE"  -> -128
      [] T = "INT2SBYTES" -> -32768
      [] T = "INT4SBYTES" -> -2147483647
      [] OTHER            -> 0

TRange(T) ==
    CASE T = "INT1SBYTE"  -> 256
      [] T = "INT1UBYTE"  -> 256
      [] OTHER            -> 65536

(***************************************************************************)
(* Input rasters.  A raster of rowCount x colCount samples is filled in    *)
(* row-major order from a palette, repeated as often as needed.  Every     *)
(* sample is representable in every integer encoding.                      *)
(***************************************************************************)
Palettes == { <<10, 20, 30, 40>>,
              <<3, 4, 0, 0>>,
              <<20, 21, 1, 0>>,
              <<100, 100, 0, 0>> }

Pixels(rows, cols) == (0 .. rows - 1) \X (0 .. cols - 1)

Raster(pal, rows, cols) ==
    [p \in Pixels(rows, cols) |-> pal[((p[1] * cols + p[2]) % Len(pal)) + 1]]

(***************************************************************************)
(* Sample values of the output raster.                                     *)
(***************************************************************************)
Unwritten == [kind |-> "none", v |-> 0]
IntVal(n) == [kind |-> "int", v |-> n]
\* the square root of n, rounded to the floating-point type T
SqrtVal(n) == [kind |-> "sqrt", v |-> n]

Min(a, b) == IF a < b THEN a ELSE b
Max(a, b) == IF a > b THEN a ELSE b


(***************************************************************************)
(* edgeDetection, lines 34-64: the clamped neighbour coordinates.          *)
(***************************************************************************)
PrevCol(c) == Max(c - 1, 0)
PrevRow(r) == Max(r - 1, 0)
NextColUnclamped(c, colSize) == c + 1

NextColOf(c, colSize) == Min(c + 1, colSize - 1)
NextRowUnclamped(r, rowSize) == r + 1

NextRowOf(r, rowSize) == Min(r + 1, rowSize - 1)

\* The four coordinates edgeDetection passes to toPixel, by the local they
\* are read into.
RightCoord(r, c, rowSize, colSize) == <<r, NextColOf(c, colSize)>>
DownCoord(r, c, rowSize, colSize) == <<NextRowOf(r, rowSize), c>>
LowerRightCoord(r, c, rowSize, colSize) ==
    <<NextRowOf(r, rowSize), NextColOf(c, colSize)>>
MidCoord(r, c, rowSize, colSize) == <<r, c>>

(***************************************************************************)
(* edgeDetection, lines 59-63: the gradients, the magnitude and the cast   *)
(* back to T.                                                              *)
(***************************************************************************)
GxAgainstDown(mid, right, down, lowerRight) == mid - down

Gx(mid, right, down, lowerRight) == mid - lowerRight
Gy(mid, right, down, lowerRight) == right - down

SumOfSquares(mid, right, down, lowerRight) ==
    LET gx == Gx(mid, right, down, lowerRight)
        gy == Gy(mid, right, down, lowerRight)
    IN  gx * gx + gy * gy

\* Integer Newton iteration from x >= sqrt(n): ends at the integral part.
RECURSIVE SqrtFrom(_, _)
SqrtFrom(n, x) ==
    LET y == (x + n \div x) \div 2 IN IF y >= x THEN x ELSE SqrtFrom(n, y)
\* the integral part of sqrt(n)
FloorSqrt(n) == IF n = 0 THEN 0 ELSE SqrtFrom(n, n)
\* sqrt(n) rounded to the nearest integer: (k + 1/2)^2 = k^2 + k + 1/4
RoundSqrt(n) ==
    LET k == FloorSqrt(n) IN IF n > k * k + k THEN k + 1 ELSE k

\* Reduction of m into the range of the integer type T.
Wrap(T, m) ==
    LET w == m % TRange(T) IN IF w > TMax(T) THEN w - TRange(T) ELSE w

\* static_cast<T>(magnitude), magnitude = sqrt(n), as the set of values it
\* may yield.  For a floating-point T the value is sqrt(n) in T.  For an
\* integer T the fraction is discarded; when the integral part cannot be
\* represented in T the conversion is undefined, and the outcomes of the
\* usual builds are the reduced value and the ends of T's range.
StaticCastRounding(T, n) ==
    IF T \in FloatEncodings
    THEN {SqrtVal(n)}
    ELSE LET m == RoundSqrt(n)
         IN  IF m <= TMax(T)
             THEN {IntVal(m)}
             ELSE {IntVal(Wrap(T, m)), IntVal(TMax(T)), IntVal(TMin(T))}

StaticCast(T, n) ==
    IF T \in FloatEncodings
    THEN {SqrtVal(n)}
    ELSE LET m == FloorSqrt(n)
         IN  IF m <= TMax(T)
             THEN {IntVal(m)}
             ELSE {IntVal(Wrap(T, m)), IntVal(TMax(T)), IntVal(TMin(T))}

(***************************************************************************)
(* Plug-in argument lists.                                                 *)
(***************************************************************************)
NoElement == [exists |-> FALSE, rows |-> 0, cols |-> 0, type |-> "none",
              owner |-> "none"]

\* getOutputSpecification, line 100: the one output argument, value NULL
OutputArgName == "Result"
OutputSpecification == [n \in {OutputArgName} |-> NoElement]

\* the name execute stores the result under, line 219
StoredArgName == "Robert_Edge_Result"

\* PlugInArgList::setPlugInArgValue: the value is stored only under an
\* argument the list holds; otherwise the list is left as it is.
SetPlugInArgValue(args, name, value) ==
    IF name \in DOMAIN args THEN [args EXCEPT ![name] = value] ELSE args

\* Progress percent of line 159.  The C++ operands are unsigned int, so the
\* product row * 100 is taken modulo 2^32 and the division is unsigned.  The
\* product is kept as two 16-bit halves <<high, low>>, because it can pass
\* the largest integer the checker computes with.
UMul100(r) ==
    LET low == (r % 65536) * 100
    IN  <<((r \div 65536) * 100 + low \div 65536) % 65536, low % 65536>>

\* unsigned x / n for x = <<high, low>> and 1 <= n < 2^31, by halving x
UDiv(x, n) ==
    LET half == x[1] * 32768 + x[2] \div 2
        odd == x[2] % 2
        rest == half % n
    IN  2 * (half \div n) + (IF rest >= n - rest - odd THEN 1 ELSE 0)

PercentOfRowsDone(r, rows) == ((r + 1) * 100) \div rows

Percent(r, rows) == UDiv(UMul100(r), rows)


(***************************************************************************)
(* State.                                                                  *)
(***************************************************************************)
VARIABLES
    pc,             \* position in Robert::execute
    pInArgList,     \* TRUE when the argument is not NULL
    pOutArgList,    \* TRUE when the argument is not NULL
    pProgress,      \* TRUE when a progress sink is supplied
    pCube,          \* TRUE when the input raster is supplied
    dataType,       \* pDesc->getDataType()
    rowCount,       \* pDesc->getRowCount()
    colCount,       \* pDesc->getColumnCount()
    inData,         \* the samples of the input raster
    inData0,        \* the samples of the input raster when the run began
    aborted,        \* the flag isAborted() returns
    pSrcAcc,        \* the read accessor
    pDestAcc,       \* the write accessor
    row, col,       \* the loop counters of execute
    rightVal, downVal, lowerRightVal, midVal,   \* locals of edgeDetection
    reads,          \* coordinates passed to toPixel for the current pixel
    pResultCube,    \* the result raster element
    outData,        \* the samples of the result raster
    writes,         \* how often each output pixel has been written
    reports,        \* the calls of Progress::updateProgress, in order
    stepResult,     \* how pStep was finalized
    retval,         \* the value execute returned
    outArgs,        \* the values held by the output argument list
    view,           \* what became of the result's view
    accessorFailed, \* TRUE once an accessor has failed to serve a position
    srcFailures     \* how many times toPixel has left the read accessor invalid

vars == <<pc, pInArgList, pOutArgList, pProgress, pCube, dataType, rowCount,
          colCount, inData, inData0, aborted, pSrcAcc, pDestAcc, row, col,
          rightVal, downVal, lowerRightVal, midVal, reads, pResultCube,
          outData, writes, reports, stepResult, retval, outArgs, view,
          accessorFailed, srcFailures>>

NoAccessor == [open |-> FALSE, valid |-> FALSE, row |-> 0, col |-> 0]
Accessor(ok, r, c) == [open |-> TRUE, valid |-> ok, row |-> r, col |-> c]

NoPixels == [p \in {} |-> Unwritten]

Init ==
    /\ pc = "Start"
    /\ pInArgList \in BOOLEAN
    /\ pOutArgList \in BOOLEAN
    /\ pProgress \in (IF pInArgList THEN BOOLEAN ELSE {FALSE})
    /\ pCube \in (IF pInArgList THEN BOOLEAN ELSE {FALSE})
    /\ dataType \in (IF pCube THEN Encodings ELSE {"none"})
    /\ rowCount \in (IF pCube THEN 0 .. MaxRows ELSE {0})
    /\ colCount \in (IF pCube THEN 0 .. MaxCols ELSE {0})
    /\ inData \in {Raster(pal, rowCount, colCount) : pal \in Palettes}
    /\ inData0 = inData
    /\ aborted = FALSE
    /\ pSrcAcc = NoAccessor
    /\ pDestAcc = NoAccessor
    /\ row = 0
    /\ col = 0
    /\ rightVal = 0
    /\ downVal = 0
    /\ lowerRightVal = 0
    /\ midVal = 0
    /\ reads = <<>>
    /\ pResultCube = NoElement
    /\ outData = NoPixels
    /\ writes = [p \in {} |-> 0]
    /\ reports = <<>>
    /\ stepResult = "None"
    /\ retval = "none"
    /\ outArgs = OutputSpecification
    /\ view = "none"
    /\ accessorFailed = FALSE
    /\ srcFailures = 0

(***************************************************************************)
(* Helpers of execute.                                                     *)
(***************************************************************************)
Report(msg, percent, sev) == [msg |-> msg, percent |-> percent, sev |-> sev]

\* if (pProgress != NULL) pProgress->updateProgress(msg, percent, sev)
UpdateProgress(msg, percent, sev) ==
    IF pProgress THEN Append(reports, Report(msg, percent, sev)) ELSE reports

\* ~ModelResource: a result element still owned by pResultCube is destroyed
DestroyIfOwned(cube) ==
    IF cube.exists /\ cube.owner = "resource"
    THEN [cube EXCEPT !.exists = FALSE, !.owner = "destroyed"]
    ELSE cube

\* The failure exits of execute: finalize the step, report, return false.
ReturnFailureAsNormal(msg) ==
    /\ stepResult' = "Failure"
    /\ reports' = UpdateProgress(msg, 0, "NORMAL")
    /\ retval' = "false"
    /\ pResultCube' = DestroyIfOwned(pResultCube)
    /\ pc' = "Done"

ReturnFailure(msg) ==
    /\ stepResult' = "Failure"
    /\ reports' = UpdateProgress(msg, 0, "ERRORS")
    /\ retval' = "false"
    /\ pResultCube' = DestroyIfOwned(pResultCube)
    /\ pc' = "Done"

\* RasterUtilities::createRasterElement(name, rows, columns, type)
CreateRasterElement(rows, cols, type) ==
    [exists |-> TRUE, rows |-> rows, cols |-> cols, type |-> type,
     owner |-> "resource"]

\* lines 139-140: the geometry and encoding the result is created with
NewResultCubeTransposed == CreateRasterElement(colCount, rowCount, dataType)

NewResultCube == CreateRasterElement(rowCount, colCount, dataType)


inputVars == <<pInArgList, pOutArgList, pProgress, pCube, dataType, rowCount,
               colCount, inData, inData0>>
localVars == <<rightVal, downVal, lowerRightVal, midVal>>
resultVars == <<pResultCube, outData, writes>>
exitVars == <<stepResult, retval, outArgs, view>>
failVars == <<accessorFailed, srcFailures>>

Running == pc \notin {"Done", "Crashed"}

(***************************************************************************)
(* The host calls abort() (setAbortSupported(true), line 80): the flag     *)
(* isAborted() returns is set, at any moment of the run.                   *)
(***************************************************************************)
Abort ==
    /\ Running
    /\ ~aborted
    /\ aborted' = TRUE
    /\ UNCHANGED <<pc, inputVars, pSrcAcc, pDestAcc, row, col, localVars,
                   reads, resultVars, reports, exitVars, failVars>>

(***************************************************************************)
(* execute, lines 107-110.                                                 *)
(***************************************************************************)
CheckArgLists ==
    /\ pc = "Start"
    /\ IF ~pInArgList \/ ~pOutArgList
       THEN retval' = "false" /\ pc' = "Done"
       ELSE retval' = retval /\ pc' = "Validate"
    /\ UNCHANGED <<inputVars, aborted, pSrcAcc, pDestAcc, row, col, localVars,
                   reads, resultVars, reports, stepResult, outArgs, view,
                   failVars>>

(***************************************************************************)
(* execute, lines 111-134: the input raster and its encoding.  A raster    *)
(* element always has its descriptor, so the VERIFY of line 124 passes.    *)
(***************************************************************************)
IsComplexIntegerOnly(type) == type = "INT4SCOMPLEX"

IsComplex(type) == type = "INT4SCOMPLEX" \/ type = "FLT8COMPLEX"

Validate ==
    /\ pc = "Validate"
    /\ IF ~pCube
       THEN ReturnFailure("A raster cube must be specified.")
       ELSE IF IsComplex(dataType)
            THEN ReturnFailure(
                    "Edge detection cannot be performed on complex types.")
            ELSE /\ pc' = "Acquire"
                 /\ UNCHANGED <<stepResult, reports, retval, pResultCube>>
    /\ UNCHANGED <<inputVars, aborted, pSrcAcc, pDestAcc, row, col, localVars,
                   reads, outData, writes, outArgs, view, failVars>>

(***************************************************************************)
(* execute, lines 136-153: the read accessor, the result raster and the    *)
(* write accessor.  An accessor may come back invalid, and the result      *)
(* element may fail to be created.                                         *)
(***************************************************************************)
\* lines 141-150: the exit taken when createRasterElement gives NULL
AllocationFailureWithoutReturn ==
    /\ stepResult' = "Failure"
    /\ reports' = UpdateProgress("A raster cube could not be created.", 0,
                                 "ERRORS")
    /\ retval' = retval
    /\ pResultCube' = pResultCube
    /\ pc' = "RowLoop"

AllocationFailureExit == ReturnFailure("A raster cube could not be created.")

Acquire ==
    /\ pc = "Acquire"
    /\ \E srcOk \in BOOLEAN :
          pSrcAcc' = Accessor(srcOk, 0, 0)
    /\ \E created \in BOOLEAN :
          IF ~created
          THEN /\ AllocationFailureExit
               /\ UNCHANGED <<pDestAcc, outData, writes, accessorFailed>>
          ELSE /\ pResultCube' = NewResultCube
               /\ outData' = [p \in Pixels(pResultCube'.rows, pResultCube'.cols)
                                |-> Unwritten]
               /\ writes' = [p \in Pixels(pResultCube'.rows, pResultCube'.cols)
                                |-> 0]
               /\ \E destOk \in BOOLEAN :
                     /\ pDestAcc' = Accessor(destOk, 0, 0)
                     /\ accessorFailed' = ~destOk
               /\ pc' = "RowLoop"
               /\ UNCHANGED <<stepResult, reports, retval>>
    /\ UNCHANGED <<inputVars, aborted, row, col, localVars, reads, outArgs,
                   view, srcFailures>>

(***************************************************************************)
(* execute, lines 155-181: the order of the steps at the start of a row:   *)
(* the loop test, the progress report (157-160), the abort check           *)
(* (161-170), the write-accessor check (171-180), the column loop (181).   *)
(***************************************************************************)
RowStepAfterChecksFirst(step) ==
    CASE step = "RowLoop" -> "AbortCheck"
      [] step = "AbortCheck" -> "DestCheck"
      [] step = "DestCheck" -> "Progress"
      [] step = "Progress" -> "ColLoop"

RowStepAfter(step) ==
    CASE step = "RowLoop" -> "Progress"
      [] step = "Progress" -> "AbortCheck"
      [] step = "AbortCheck" -> "DestCheck"
      [] step = "DestCheck" -> "ColLoop"

(***************************************************************************)
(* execute, line 155: the row loop.                                        *)
(***************************************************************************)
RowLoop ==
    /\ pc = "RowLoop"
    /\ pc' = IF row < rowCount THEN RowStepAfter("RowLoop") ELSE "View"
    /\ UNCHANGED <<inputVars, aborted, pSrcAcc, pDestAcc, row, col, localVars,
                   reads, resultVars, reports, exitVars, failVars>>

\* lines 157-160
RowProgress ==
    /\ pc = "Progress"
    /\ reports' = UpdateProgress("Calculating result", Percent(row, rowCount),
                                 "NORMAL")
    /\ pc' = RowStepAfter("Progress")
    /\ UNCHANGED <<inputVars, aborted, pSrcAcc, pDestAcc, row, col, localVars,
                   reads, resultVars, exitVars, failVars>>

\* lines 161-170
AbortCheckWithoutReturn ==
    /\ pc = "AbortCheck"
    /\ IF aborted
       THEN /\ stepResult' = "Abort"
            /\ reports' = UpdateProgress(
                             "Robert Edge Detection has been aborted.", 0,
                             "ABORT")
       ELSE UNCHANGED <<stepResult, reports>>
    /\ pc' = "DestCheck"
    /\ UNCHANGED <<inputVars, aborted, pSrcAcc, pDestAcc, row, col, localVars,
                   reads, resultVars, retval, outArgs, view, failVars>>

AbortCheck ==
    /\ pc = "AbortCheck"
    /\ IF aborted
       THEN /\ stepResult' = "Abort"
            /\ reports' = UpdateProgress(
                             "Robert Edge Detection has been aborted.", 0,
                             "ABORT")
            /\ retval' = "false"
            /\ pResultCube' = DestroyIfOwned(pResultCube)
            /\ pc' = "Done"
       ELSE /\ pc' = RowStepAfter("AbortCheck")
            /\ UNCHANGED <<stepResult, reports, retval, pResultCube>>
    /\ UNCHANGED <<inputVars, aborted, pSrcAcc, pDestAcc, row, col, localVars,
                   reads, outData, writes, outArgs, view, failVars>>

\* lines 171-180, and the col = 0 of line 181
DestCheckIgnored ==
    /\ pc = "DestCheck"
    /\ pc' = RowStepAfter("DestCheck")
    /\ col' = 0
    /\ UNCHANGED <<stepResult, reports, retval, pResultCube>>
    /\ UNCHANGED <<inputVars, aborted, pSrcAcc, pDestAcc, row, localVars,
                   reads, outData, writes, outArgs, view, failVars>>

DestCheck ==
    /\ pc = "DestCheck"
    /\ IF ~pDestAcc.valid
       THEN /\ ReturnFailure("Unable to access the cube data.")
            /\ col' = col
       ELSE /\ pc' = RowStepAfter("DestCheck")
            /\ col' = 0
            /\ UNCHANGED <<stepResult, reports, retval, pResultCube>>
    /\ UNCHANGED <<inputVars, aborted, pSrcAcc, pDestAcc, row, localVars,
                   reads, outData, writes, outArgs, view, failVars>>

\* line 181: the column loop; a pixel's call of edgeDetection starts with
\* fresh locals
ColLoopSkipsLast == col + 1 < colCount

ColLoopStopsOnAbort == col < colCount /\ ~aborted

ColLoopContinues == col < colCount

ColLoop ==
    /\ pc = "ColLoop"
    /\ pc' = IF ColLoopContinues THEN "ReadRight" ELSE "NextRow"
    /\ reads' = <<>>
    /\ rightVal' = 0
    /\ downVal' = 0
    /\ lowerRightVal' = 0
    /\ midVal' = 0
    /\ UNCHANGED <<inputVars, aborted, pSrcAcc, pDestAcc, row, col,
                   resultVars, reports, exitVars, failVars>>


(***************************************************************************)
(* edgeDetection, lines 42-56: four repositions of the read accessor, each *)
(* followed by VERIFYNRV(pSrcAcc.isValid()), which returns from            *)
(* edgeDetection (and only from it) when the accessor is not valid.  The   *)
(* DataAccessor is passed by value; the copy shares the position and the   *)
(* validity of execute's pSrcAcc.                                          *)
(***************************************************************************)
InBounds(at) == at \in DOMAIN inData

\* DataAccessor::toPixel: the accessor is valid afterwards only at a
\* position of the raster, and only if the storage can serve it.
ToPixelOutcomes(at) ==
    IF ~InBounds(at) THEN {FALSE}
    ELSE IF srcFailures < MaxSrcFailures THEN BOOLEAN
    ELSE {TRUE}

\* *reinterpret_cast<T*>(pSrcAcc->getColumn()) on a valid accessor
Sample(at) == inData[at]

ReadRight ==
    /\ pc = "ReadRight"
    /\ LET at == RightCoord(row, col, rowCount, colCount)
       IN  \E ok \in ToPixelOutcomes(at) :
              /\ pSrcAcc' = Accessor(ok, at[1], at[2])
              /\ reads' = Append(reads, at)
              /\ accessorFailed' = (accessorFailed \/ ~ok)
              /\ srcFailures' = IF ok THEN srcFailures ELSE srcFailures + 1
              /\ IF ok
                 THEN rightVal' = Sample(at) /\ pc' = "ReadDown"
                 ELSE rightVal' = rightVal /\ pc' = "NextCol"
    /\ UNCHANGED <<inputVars, aborted, pDestAcc, row, col, downVal,
                   lowerRightVal, midVal, resultVars, reports, exitVars>>

ReadDown ==
    /\ pc = "ReadDown"
    /\ LET at == DownCoord(row, col, rowCount, colCount)
       IN  \E ok \in ToPixelOutcomes(at) :
              /\ pSrcAcc' = Accessor(ok, at[1], at[2])
              /\ reads' = Append(reads, at)
              /\ accessorFailed' = (accessorFailed \/ ~ok)
              /\ srcFailures' = IF ok THEN srcFailures ELSE srcFailures + 1
              /\ IF ok
                 THEN downVal' = Sample(at) /\ pc' = "ReadLowerRight"
                 ELSE downVal' = downVal /\ pc' = "NextCol"
    /\ UNCHANGED <<inputVars, aborted, pDestAcc, row, col, rightVal,
                   lowerRightVal, midVal, resultVars, reports, exitVars>>

ReadLowerRight ==
    /\ pc = "ReadLowerRight"
    /\ LET at == LowerRightCoord(row, col, rowCount, colCount)
       IN  \E ok \in ToPixelOutcomes(at) :
              /\ pSrcAcc' = Accessor(ok, at[1], at[2])
              /\ reads' = Append(reads, at)
              /\ accessorFailed' = (accessorFailed \/ ~ok)
              /\ srcFailures' = IF ok THEN srcFailures ELSE srcFailures + 1
              /\ IF ok
                 THEN lowerRightVal' = Sample(at) /\ pc' = "ReadMid"
                 ELSE lowerRightVal' = lowerRightVal /\ pc' = "NextCol"
    /\ UNCHANGED <<inputVars, aborted, pDestAcc, row, col, rightVal, downVal,
                   midVal, resultVars, reports, exitVars>>

ReadMid ==
    /\ pc = "ReadMid"
    /\ LET at == MidCoord(row, col, rowCount, colCount)
       IN  \E ok \in ToPixelOutcomes(at) :
              /\ pSrcAcc' = Accessor(ok, at[1], at[2])
              /\ reads' = Append(reads, at)
              /\ accessorFailed' = (accessorFailed \/ ~ok)
              /\ srcFailures' = IF ok THEN srcFailures ELSE srcFailures + 1
              /\ IF ok
                 THEN midVal' = Sample(at) /\ pc' = "Write"
                 ELSE midVal' = midVal /\ pc' = "NextCol"
    /\ UNCHANGED <<inputVars, aborted, pDestAcc, row, col, rightVal, downVal,
                   lowerRightVal, resultVars, reports, exitVars>>

(***************************************************************************)
(* edgeDetection, lines 59-63: *pData = static_cast<T>(magnitude), pData   *)
(* being pDestAcc->getColumn() (line 183).  Through a valid accessor the   *)
(* value lands in the accessor's slot.  Through an accessor that is not    *)
(* valid the store is undefined: it lands in the slot, lands outside the   *)
(* raster, or ends the process.                                            *)
(***************************************************************************)
SlotAtOrigin == <<0, 0>>

Slot == <<pDestAcc.row, pDestAcc.col>>

Store(v, landed) ==
    IF landed /\ Slot \in DOMAIN outData
    THEN /\ outData' = [outData EXCEPT ![Slot] = v]
         /\ writes' = [writes EXCEPT ![Slot] = @ + 1]
    ELSE UNCHANGED <<outData, writes>>

Write ==
    /\ pc = "Write"
    /\ \/ /\ \E v \in StaticCast(dataType, SumOfSquares(midVal, rightVal,
                                                      downVal, lowerRightVal)) :
               \E landed \in (IF pDestAcc.valid THEN {TRUE} ELSE BOOLEAN) :
                  Store(v, landed)
          /\ pc' = "NextCol"
       \/ /\ ~pDestAcc.valid
          /\ pc' = "Crashed"
          /\ UNCHANGED <<outData, writes>>
    /\ UNCHANGED <<inputVars, aborted, pSrcAcc, pDestAcc, row, col, localVars,
                   reads, pResultCube, reports, exitVars, failVars>>

(***************************************************************************)
(* execute, line 185: pDestAcc->nextColumn(), and the ++col of line 181.   *)
(* The accessor stays valid only if the storage can serve the new          *)
(* position; once not valid it stays so.                                   *)
(***************************************************************************)
NextColumn ==
    /\ pc = "NextCol"
    /\ \E ok \in (IF pDestAcc.valid THEN BOOLEAN ELSE {FALSE}) :
          /\ pDestAcc' = [pDestAcc EXCEPT !.col = @ + 1, !.valid = ok]
          /\ accessorFailed' = (accessorFailed \/ (pDestAcc.valid /\ ~ok))
    /\ col' = col + 1
    /\ pc' = "ColLoop"
    /\ UNCHANGED <<inputVars, aborted, pSrcAcc, row, localVars, reads,
                   resultVars, reports, exitVars, srcFailures>>

(***************************************************************************)
(* execute, line 188: pDestAcc->nextRow(), and the ++row of line 155.      *)
(* Past the last row the accessor is not valid.                            *)
(***************************************************************************)
NextRow ==
    /\ pc = "NextRow"
    /\ LET more == pDestAcc.row + 1 < pResultCube.rows
       IN  \E ok \in (IF pDestAcc.valid /\ more THEN BOOLEAN ELSE {FALSE}) :
              /\ pDestAcc' = [pDestAcc EXCEPT !.row = @ + 1, !.col = 0,
                                              !.valid = ok]
              /\ accessorFailed' =
                    (accessorFailed \/ (pDestAcc.valid /\ more /\ ~ok))
    /\ row' = row + 1
    /\ pc' = "RowLoop"
    /\ UNCHANGED <<inputVars, aborted, pSrcAcc, col, localVars, reads,
                   resultVars, reports, exitVars, srcFailures>>

(***************************************************************************)
(* execute, lines 191-212: outside batch mode the result is shown in a new *)
(* window, whose creation may fail.                                        *)
(***************************************************************************)
CreateView ==
    /\ pc = "View"
    /\ \E isBatch \in BOOLEAN, pView \in BOOLEAN :
          IF isBatch
          THEN /\ pView
               /\ view' = "batch"
               /\ pc' = "Final"
               /\ UNCHANGED <<stepResult, reports, retval, pResultCube>>
          ELSE IF ~pView
               THEN /\ view' = "failed"
                    /\ ReturnFailure("Unable to create view.")
               ELSE /\ view' = "created"
                    /\ pc' = "Final"
                    /\ UNCHANGED <<stepResult, reports, retval, pResultCube>>
    /\ UNCHANGED <<inputVars, aborted, pSrcAcc, pDestAcc, row, col, localVars,
                   reads, outData, writes, outArgs, failVars>>

(***************************************************************************)
(* execute, lines 214-222: the final report, the output argument, the      *)
(* step, and the return.                                                   *)
(***************************************************************************)
CompletionReport == Report("Edge Detection is complete.", 100, "NORMAL")

Finish ==
    /\ pc = "Final"
    /\ reports' = IF pProgress THEN Append(reports, CompletionReport)
                               ELSE reports
    /\ outArgs' = SetPlugInArgValue(outArgs, StoredArgName,
                                    [pResultCube EXCEPT !.owner = "caller"])
    /\ pResultCube' = [pResultCube EXCEPT !.owner = "released"]
    /\ stepResult' = "Success"
    /\ retval' = "true"
    /\ pc' = "Done"
    /\ UNCHANGED <<inputVars, aborted, pSrcAcc, pDestAcc, row, col, localVars,
                   reads, outData, writes, view, failVars>>

Next ==
    \/ Abort
    \/ CheckArgLists
    \/ Validate
    \/ Acquire
    \/ RowLoop
    \/ RowProgress
    \/ AbortCheck
    \/ DestCheck
    \/ ColLoop
    \/ ReadRight
    \/ ReadDown
    \/ ReadLowerRight
    \/ ReadMid
    \/ Write
    \/ NextColumn
    \/ NextRow
    \/ CreateView
    \/ Finish

Spec == Init /\ [][Next]_vars


(***************************************************************************)
(* The states a run ends in.                                               *)
(***************************************************************************)
Completed == pc = "Done" /\ retval = "true"
AbortedRun == pc = "Done" /\ retval = "false" /\ stepResult = "Abort"
Failed == pc = "Done" /\ retval = "false" /\ stepResult # "Abort"

LastReport == reports[Len(reports)]

\* the scan loop is at the start of row `row`: before the checks of the row
AtRowStart ==
    \/ pc = "RowLoop" /\ row < rowCount
    \/ pc = "Progress"
    \/ pc = "AbortCheck"

\* no pixel of row k or of a later row has been written
NoRowWrittenFrom(k) == \A p \in DOMAIN writes : p[1] >= k => writes[p] = 0

(***************************************************************************)
(* C1.  Cancellation at row granularity: when the cancellation flag is set *)
(* while the scan loop is at the start of row k, no pixel of a row >= k    *)
(* has been written, and every step from there leaves the output as it is  *)
(* and either stays at the start of row k or ends the run Aborted          *)
(* (execute returns false, the step is finalized as Abort, and the sink,   *)
(* when there is one, gets an ABORT report).                               *)
(***************************************************************************)
C1_CancelAtRowStart ==
    /\ [](AtRowStart => NoRowWrittenFrom(row))
    /\ [][(AtRowStart /\ aborted) =>
            /\ aborted'
            /\ outData' = outData
            /\ writes' = writes
            /\ row' = row
            /\ \/ AtRowStart'
               \/ /\ AbortedRun'
                  /\ pProgress => /\ Len(reports') > 0
                                  /\ reports'[Len(reports')].sev = "ABORT"]_vars

\* a run aborted at the start of row 1, after row 0 was written
C1_Witness ==
    /\ AbortedRun
    /\ rowCount = 2
    /\ colCount = 2
    /\ row = 1
    /\ writes[<<0, 0>>] = 1
    /\ writes[<<0, 1>>] = 1
    /\ NoRowWrittenFrom(1)


(***************************************************************************)
(* Interior pixels and the magnitude computed from the true neighbours.    *)
(***************************************************************************)
Interior(p) == p[1] < rowCount - 1 /\ p[2] < colCount - 1

\* (in[r][c] - in[r+1][c+1])^2 + (in[r][c+1] - in[r+1][c])^2
TrueSumOfSquares(p) ==
    LET a == inData[p] - inData[<<p[1] + 1, p[2] + 1>>]
        b == inData[<<p[1], p[2] + 1>>] - inData[<<p[1] + 1, p[2]>>]
    IN  a * a + b * b

(***************************************************************************)
(* C2, as claimed.  Interior pixel result: in an integer encoding, the     *)
(* value written to an interior output pixel is the magnitude              *)
(* sqrt((in[r][c] - in[r+1][c+1])^2 + (in[r][c+1] - in[r+1][c])^2) rounded *)
(* to the NEAREST integer.                                                 *)
(***************************************************************************)
C2_InteriorRounded ==
    \A p \in DOMAIN writes :
        (/\ dataType \in IntegerEncodings
         /\ Interior(p)
         /\ writes[p] > 0
         /\ RoundSqrt(TrueSumOfSquares(p)) <= TMax(dataType))
            => outData[p] = IntVal(RoundSqrt(TrueSumOfSquares(p)))

(***************************************************************************)
(* C2, amended.  Interior pixel result: in an integer encoding, the value  *)
(* written to an interior output pixel is the magnitude with its fraction  *)
(* discarded (rounded toward zero), whenever that integer is representable *)
(* in the encoding.                                                        *)
(***************************************************************************)
C2_InteriorTruncated ==
    \A p \in DOMAIN writes :
        (/\ dataType \in IntegerEncodings
         /\ Interior(p)
         /\ writes[p] > 0
         /\ FloorSqrt(TrueSumOfSquares(p)) <= TMax(dataType))
            => outData[p] = IntVal(FloorSqrt(TrueSumOfSquares(p)))

\* the interior pixel of [[10,20],[30,40]] written: sqrt(1000) = 31.62
C2_Witness ==
    /\ dataType = "INT2SBYTES"
    /\ rowCount = 2
    /\ colCount = 2
    /\ inData = Raster(<<10, 20, 30, 40>>, 2, 2)
    /\ <<0, 0>> \in DOMAIN writes
    /\ writes[<<0, 0>>] = 1
    /\ outData[<<0, 0>>] = IntVal(31)

(***************************************************************************)
(* The raster of the end-to-end example, and two output rasters.           *)
(***************************************************************************)
ExampleInput == Raster(<<10, 20, 30, 40>>, 2, 2)
ExampleClaimed == [p \in Pixels(2, 2) |-> IntVal(Raster(<<32, 28, 0, 0>>, 2, 2)[p])]
ExampleComputed == [p \in Pixels(2, 2) |-> IntVal(Raster(<<31, 28, 14, 0>>, 2, 2)[p])]

ExampleRun ==
    /\ dataType \in IntegerEncodings
    /\ rowCount = 2
    /\ colCount = 2
    /\ inData = ExampleInput

AllWrittenOnce ==
    /\ DOMAIN writes = Pixels(rowCount, colCount)
    /\ \A p \in DOMAIN writes : writes[p] = 1

(***************************************************************************)
(* C3, as claimed.  End-to-end example: a completed scan of the 2x2        *)
(* integer raster [[10,20],[30,40]] that wrote every pixel leaves the      *)
(* output raster [[32,28],[0,0]].                                          *)
(***************************************************************************)
C3_ExampleAsClaimed ==
    (Completed /\ ExampleRun /\ AllWrittenOnce) => outData = ExampleClaimed

(***************************************************************************)
(* C3, amended.  End-to-end example: in a scan of the 2x2 integer raster   *)
(* [[10,20],[30,40]] every output pixel that has been written holds its    *)
(* value of [[31,28],[14,0]], and a completed scan whose accessors stayed  *)
(* valid has written all four.  Pixel (0,0) is 31.62 with its fraction     *)
(* discarded; pixel (1,0) has gx = 30 - 40, gy = 40 - 30, magnitude 14.14; *)
(* only pixel (1,1) has gx = gy = 0.                                       *)
(***************************************************************************)
C3_ExampleComputed ==
    ExampleRun =>
        /\ \A p \in DOMAIN writes : writes[p] > 0 => outData[p] = ExampleComputed[p]
        /\ (Completed /\ ~accessorFailed) =>
               (AllWrittenOnce /\ outData = ExampleComputed)

C3_Witness ==
    /\ Completed
    /\ ExampleRun
    /\ ~accessorFailed
    /\ outData = ExampleComputed

(***************************************************************************)
(* C4.  Boundary replication on the high side.  While edgeDetection works  *)
(* on pixel (row, col): in the last column the "right" read is at          *)
(* (row, colCount-1) and the "lower-right" read is in column colCount-1;   *)
(* in the last row the "down" read is at (rowCount-1, col) and the         *)
(* "lower-right" read is in row rowCount-1; the samples used are those of  *)
(* these positions; and no read is at a lower row or column than the       *)
(* centre.                                                                 *)
(***************************************************************************)
InEdgeDetection ==
    pc \in {"ReadDown", "ReadLowerRight", "ReadMid", "Write", "NextCol"}

C4_HighSideReplication ==
    InEdgeDetection =>
        /\ \A i \in 1 .. Len(reads) : reads[i][1] >= row /\ reads[i][2] >= col
        /\ col = colCount - 1 =>
              /\ Len(reads) >= 1 => reads[1] = <<row, colCount - 1>>
              /\ Len(reads) >= 3 => reads[3][2] = colCount - 1
              /\ pc = "Write" => rightVal = inData[<<row, colCount - 1>>]
              /\ pc = "Write" => \E r \in row .. rowCount - 1 :
                                    lowerRightVal = inData[<<r, colCount - 1>>]
        /\ row = rowCount - 1 =>
              /\ Len(reads) >= 2 => reads[2] = <<rowCount - 1, col>>
              /\ Len(reads) >= 3 => reads[3][1] = rowCount - 1
              /\ pc = "Write" => downVal = inData[<<rowCount - 1, col>>]
              /\ pc = "Write" => \E c \in col .. colCount - 1 :
                                    lowerRightVal = inData[<<rowCount - 1, c>>]

\* the corner pixel of a 2x2 raster, all four samples read
C4_Witness ==
    /\ pc = "Write"
    /\ rowCount = 2
    /\ colCount = 2
    /\ row = 1
    /\ col = 1
    /\ reads = <<<<1, 1>>, <<1, 1>>, <<1, 1>>, <<1, 1>>>>


(***************************************************************************)
(* C5, as claimed.  Every run whose input raster is absent or whose        *)
(* encoding is one of the two complex encodings ends Failed with an        *)
(* error-severity report: the progress sink, when one is supplied, has     *)
(* been given an ERRORS report.                                            *)
(***************************************************************************)
C5_RejectsWithReport ==
    ((~pCube \/ dataType \in ComplexEncodings) /\ pc = "Done") =>
        /\ Failed
        /\ pProgress => \E i \in 1 .. Len(reports) : reports[i].sev = "ERRORS"

(***************************************************************************)
(* C5, amended.  Validation rejects before any pixel is touched.  A run    *)
(* that is given both argument lists and                                   *)
(* whose input raster is absent or whose encoding is                       *)
(* INT4SCOMPLEX or FLT8COMPLEX never gets past validation: it creates no   *)
(* result raster, obtains no accessor, reads and writes no pixel, and it   *)
(* ends Failed, the step finalized as Failure and the sink, when there is  *)
(* one, given one ERRORS report.  A run with any other encoding that has   *)
(* ended has obtained its read accessor: validation did not reject it.     *)
(***************************************************************************)
HasArgLists == pInArgList /\ pOutArgList
Rejectable == ~pCube \/ dataType \in ComplexEncodings

C5_ValidationRejects ==
    /\ (HasArgLists /\ Rejectable) =>
          /\ pc \in {"Start", "Validate", "Done"}
          /\ pResultCube = NoElement
          /\ outData = NoPixels
          /\ ~pSrcAcc.open
          /\ ~pDestAcc.open
          /\ reads = <<>>
          /\ pc = "Done" =>
                /\ Failed
                /\ stepResult = "Failure"
                /\ reports = IF pProgress
                             THEN <<Report(IF pCube
                                           THEN "Edge detection cannot be performed on complex types."
                                           ELSE "A raster cube must be specified.",
                                           0, "ERRORS")>>
                             ELSE <<>>
    /\ (HasArgLists /\ ~Rejectable /\ pc = "Done") => pSrcAcc.open

C5_Witness ==
    /\ HasArgLists
    /\ pProgress
    /\ dataType = "FLT8COMPLEX"
    /\ Failed
    /\ Len(reports) = 1

(***************************************************************************)
(* C7.  Output delivery: after a run that ends Completed the result raster *)
(* is held by the output argument list under the argument that             *)
(* getOutputSpecification declared, and the name execute stores under is   *)
(* the declared name.                                                      *)
(***************************************************************************)
C7_OutputDelivered ==
    Completed =>
        /\ StoredArgName = OutputArgName
        /\ outArgs[OutputArgName].exists
        /\ outArgs[OutputArgName].rows = rowCount
        /\ outArgs[OutputArgName].cols = colCount

(***************************************************************************)
(* C8.  Read-cursor failure is fatal: once a reposition has left the read  *)
(* accessor invalid, no pixel is about to be written any more, and the run *)
(* does not end Completed; when it has ended, it has ended Failed.         *)
(***************************************************************************)
C8_ReadFailureIsFatal ==
    srcFailures > 0 =>
        /\ pc # "Write"
        /\ ~Completed
        /\ pc = "Done" => Failed

(***************************************************************************)
(* C9.  Geometry preservation: whenever the result raster exists its       *)
(* rowCount, colCount and encoding are the input's, its samples cover      *)
(* exactly rowCount x colCount pixels, and no step changes the geometry of *)
(* either raster.                                                          *)
(***************************************************************************)
Geometry(cube) == <<cube.rows, cube.cols, cube.type>>

C9_GeometryPreserved ==
    /\ [](pResultCube.exists =>
             /\ Geometry(pResultCube) = <<rowCount, colCount, dataType>>
             /\ DOMAIN outData = Pixels(rowCount, colCount))
    /\ [][/\ <<rowCount, colCount, dataType>>' = <<rowCount, colCount, dataType>>
          /\ (pResultCube.exists /\ pResultCube'.exists) =>
                /\ Geometry(pResultCube') = Geometry(pResultCube)
                /\ DOMAIN outData' = DOMAIN outData]_vars

\* a finished scan of a raster that is not square
C9_Witness ==
    /\ Completed
    /\ pResultCube.exists
    /\ rowCount = 1
    /\ colCount = 2
    /\ AllWrittenOnce

(***************************************************************************)
(* C10.  Progress reporting, with a progress sink supplied: once the scan  *)
(* of row k has passed its report, k+1 "Calculating result" reports have   *)
(* been made, and every pixel written lies in a row below that count (so a *)
(* row is reported before any of its pixels is written); a run that ends   *)
(* Completed has the report (100, NORMAL) as its last report; and a report *)
(* of 100 percent is made by no other run and at no other place.           *)
(***************************************************************************)
RowReports ==
    Cardinality({i \in 1 .. Len(reports) : reports[i].msg = "Calculating result"})

InRow ==
    pc \in {"AbortCheck", "DestCheck", "ColLoop", "ReadRight", "ReadDown",
            "ReadLowerRight", "ReadMid", "Write", "NextCol", "NextRow"}

C10_ProgressReporting ==
    /\ pProgress =>
          /\ InRow => RowReports = row + 1
          /\ \A p \in DOMAIN writes : writes[p] > 0 => p[1] < RowReports
          /\ Completed => (Len(reports) > 0 /\ LastReport = CompletionReport)
    /\ \A i \in 1 .. Len(reports) :
          reports[i].percent = 100 =>
              (Completed /\ i = Len(reports) /\ reports[i].sev = "NORMAL")

C10_Witness ==
    /\ pProgress
    /\ Completed
    /\ rowCount = 2
    /\ colCount = 2
    /\ AllWrittenOnce
    /\ Len(reports) = 3
    /\ reports[2].percent = 50


(***************************************************************************)
(* The steps of execute still to be taken, at most: 7 per pixel, 6 more    *)
(* per row, 3 before the scan and 3 after it.                              *)
(***************************************************************************)
RowSteps == 7 * colCount + 6

Measure ==
    LET rowBase == (rowCount - Min(row, rowCount)) * RowSteps + 3
        colBase == rowBase - 4 - 7 * col
    IN  CASE pc = "Start"          -> rowCount * RowSteps + 6
          [] pc = "Validate"       -> rowCount * RowSteps + 5
          [] pc = "Acquire"        -> rowCount * RowSteps + 4
          [] pc = "RowLoop"        -> rowBase
          [] pc = "Progress"       -> rowBase - 1
          [] pc = "AbortCheck"     -> rowBase - 2
          [] pc = "DestCheck"      -> rowBase - 3
          [] pc = "ColLoop"        -> colBase
          [] pc = "ReadRight"      -> colBase - 1
          [] pc = "ReadDown"       -> colBase - 2
          [] pc = "ReadLowerRight" -> colBase - 3
          [] pc = "ReadMid"        -> colBase - 4
          [] pc = "Write"          -> colBase - 5
          [] pc = "NextCol"        -> colBase - 6
          [] pc = "NextRow"        -> rowBase - 5 - 7 * colCount
          [] pc = "View"           -> 2
          [] pc = "Final"          -> 1
          [] OTHER                 -> 0

\* a step of execute itself (the host's abort() is not one)
Step ==
    \/ CheckArgLists \/ Validate \/ Acquire \/ RowLoop \/ RowProgress
    \/ AbortCheck \/ DestCheck \/ ColLoop \/ ReadRight \/ ReadDown
    \/ ReadLowerRight \/ ReadMid \/ Write \/ NextColumn \/ NextRow
    \/ CreateView \/ Finish

\* the conditions of the claim, in a run that has ended
CleanRunEnded ==
    /\ ~Running
    /\ HasArgLists
    /\ pCube
    /\ dataType \notin ComplexEncodings
    /\ pResultCube.owner # "none"
    /\ ~aborted
    /\ ~accessorFailed

(***************************************************************************)
(* C6, as claimed.  Completion: with the input present, a non-excluded     *)
(* encoding, the result raster allocated, the cancellation flag never set  *)
(* and both accessors valid throughout, the run ends Completed with every  *)
(* one of the rowCount x colCount output pixels written exactly once.      *)
(***************************************************************************)
C6_CompletesAsClaimed == CleanRunEnded => (Completed /\ AllWrittenOnce)

(***************************************************************************)
(* C6, amended.  Completion: under the same conditions every output pixel  *)
(* has been written exactly once when the run ends, and the run ends       *)
(* Completed provided that, outside batch mode, the view of the result     *)
(* could be created (otherwise it ends Failed after the scan).  The run    *)
(* does end: while it runs a step of execute is enabled, and every step    *)
(* of execute lowers the number of steps still to be taken.                *)
(***************************************************************************)
C6_Completes ==
    /\ [](CleanRunEnded =>
             /\ AllWrittenOnce
             /\ pc = "Done"
             /\ view # "failed" => Completed
             /\ view = "failed" => Failed)
    /\ [](Running => (Measure > 0 /\ ENABLED Step))
    /\ [][pc' # pc => Measure' < Measure]_vars

C6_Witness ==
    /\ CleanRunEnded
    /\ Completed
    /\ rowCount = 2
    /\ colCount = 2
    /\ AllWrittenOnce


(***************************************************************************)
(* C11, as claimed.  No output on abort or failure: a run that ends        *)
(* Aborted or Failed leaves the output argument list as it was; a          *)
(* cancelled run is reported with Abort severity and every failure with    *)
(* Error severity (to the progress sink, when one is supplied).            *)
(***************************************************************************)
C11_NoOutputAsClaimed ==
    /\ (AbortedRun \/ Failed) => outArgs = OutputSpecification
    /\ (AbortedRun /\ pProgress) =>
          (Len(reports) > 0 /\ LastReport.sev = "ABORT")
    /\ (Failed /\ pProgress) =>
          (Len(reports) > 0 /\ LastReport.sev = "ERRORS")

(***************************************************************************)
(* C11, amended.  No output on abort or failure: a run that ends Aborted   *)
(* or Failed leaves the output argument list as it was; a cancelled run    *)
(* has its step finalized as Abort and its last report, when a sink is     *)
(* supplied, is the only one of ABORT severity and none is of ERRORS       *)
(* severity; a failed run that was given both argument lists has its step  *)
(* finalized as Failure and its last report is the only one of ERRORS      *)
(* severity and none is of ABORT severity.  A run given a NULL argument    *)
(* list fails without any report.                                          *)
(***************************************************************************)
SeverityCount(sev) ==
    Cardinality({i \in 1 .. Len(reports) : reports[i].sev = sev})

C11_NoOutputOnAbortOrFailure ==
    /\ (AbortedRun \/ Failed) => outArgs = OutputSpecification
    /\ AbortedRun =>
          /\ stepResult = "Abort"
          /\ SeverityCount("ERRORS") = 0
          /\ pProgress => /\ Len(reports) > 0
                          /\ LastReport.sev = "ABORT"
                          /\ SeverityCount("ABORT") = 1
    /\ (Failed /\ HasArgLists) =>
          /\ stepResult = "Failure"
          /\ SeverityCount("ABORT") = 0
          /\ pProgress => /\ Len(reports) > 0
                          /\ LastReport.sev = "ERRORS"
                          /\ SeverityCount("ERRORS") = 1
    /\ (Failed /\ ~HasArgLists) => (stepResult = "None" /\ reports = <<>>)

\* a scan that finished and then failed to show its result
C11_Witness ==
    /\ Failed
    /\ pProgress
    /\ view = "failed"
    /\ rowCount = 2
    /\ LastReport = Report("Unable to create view.", 0, "ERRORS")
    /\ outArgs = OutputSpecification

\* the column loop of row `row` is running: both checks of the row passed
InFlight ==
    pc \in {"ColLoop", "ReadRight", "ReadDown", "ReadLowerRight", "ReadMid",
            "Write", "NextCol", "NextRow"}

\* every pixel of row k has been written exactly once
RowWrittenOnce(k) ==
    \A c \in 0 .. colCount - 1 :
        <<k, c>> \in DOMAIN writes /\ writes[<<k, c>>] = 1

(***************************************************************************)
(* C12, as claimed.  An in-flight row always completes: when the           *)
(* cancellation flag is set while the column loop of row k is running,     *)
(* all colCount pixels of row k have been written when the column loop     *)
(* ends (read here for the runs whose cursors all stayed valid), and when  *)
(* k is the last row of a raster with pixels the run ends Completed.       *)
(***************************************************************************)
C12_InFlightRowAsClaimed ==
    /\ [](aborted /\ ~accessorFailed /\ pc = "NextRow" => RowWrittenOnce(row))
    /\ [][(aborted /\ ~accessorFailed /\ rowCount > 0 /\ colCount > 0
              /\ pc = "View" /\ pc' = "Done") => Completed']_vars

(***************************************************************************)
(* C12, amended.  The cancellation flag is not looked at inside a row:     *)
(* when it is set while the column loop of row k is running, no step of    *)
(* the row ends the run Aborted, the column loop still visits all          *)
(* colCount columns, no pixel of row k is written twice and, when no       *)
(* cursor has been invalid, every pixel of row k is written exactly once.  *)
(* The next check, at the start of row k+1 < rowCount, ends the run        *)
(* Aborted with rows 0..k as the column loops left them and no pixel of a  *)
(* later row written.  When k is the last row the scan loop exits to the   *)
(* view step, and the run ends Completed, or Failed when the result view   *)
(* cannot be created.                                                      *)
(***************************************************************************)
C12_InFlightRowCompletes ==
    /\ [][(aborted /\ InFlight) =>
             /\ ~AbortedRun'
             /\ pc' \in {"Crashed"} \/ InFlight' \/ pc' = "RowLoop"
             /\ pc' = "RowLoop" => row' = row + 1]_vars
    /\ [](aborted /\ pc = "NextRow" =>
             /\ col = colCount
             /\ \A c \in 0 .. colCount - 1 : writes[<<row, c>>] <= 1
             /\ ~accessorFailed => RowWrittenOnce(row))
    /\ [][(aborted /\ pc = "AbortCheck") =>
             /\ AbortedRun'
             /\ row' = row /\ row < rowCount
             /\ writes' = writes /\ outData' = outData
             /\ NoRowWrittenFrom(row)
             /\ ~accessorFailed => \A k \in 0 .. row - 1 : RowWrittenOnce(k)]_vars
    /\ [][(aborted /\ pc = "RowLoop" /\ row >= rowCount /\ pc' # pc) =>
             pc' = "View"]_vars
    /\ [][(aborted /\ pc = "View" /\ pc' # pc) =>
             \/ pc' = "Final"
             \/ Failed' /\ view' = "failed"]_vars
    /\ [][(aborted /\ pc = "Final" /\ pc' # pc) =>
             /\ Completed'
             /\ ~accessorFailed => AllWrittenOnce]_vars

\* cancelled during the last row of a 2x2 raster: the row is finished and
\* the run completes
C12_Witness ==
    /\ Completed
    /\ aborted
    /\ rowCount = 2 /\ colCount = 2
    /\ ~accessorFailed
    /\ AllWrittenOnce

\* the run failed at the write-accessor check of row `row`
FailedAtRowStart ==
    /\ Failed
    /\ pDestAcc.open
    /\ row < rowCount
    /\ view = "none"

\* the report of line 159 for row k
RowReport(k) == Report("Calculating result", Percent(k, rowCount), "NORMAL")

(***************************************************************************)
(* C13, as claimed.  Order of the per-row steps: the row's progress report *)
(* comes after the cancellation check and the write-cursor check, so a run *)
(* that is aborted or fails at the start of row k has emitted no           *)
(* "Calculating result" report for row k: with a sink, it has emitted      *)
(* exactly the k reports of rows 0..k-1.                                   *)
(***************************************************************************)
C13_ChecksBeforeReport ==
    (pProgress /\ (AbortedRun \/ FailedAtRowStart)) => RowReports = row

(***************************************************************************)
(* C13, amended.  Order of the per-row steps: in every row iteration the   *)
(* row's progress report is emitted first, then the cancellation flag is   *)
(* checked, then write-cursor validity, then the column loop starts; the   *)
(* cancellation check comes before the validity check, so a cancelled run  *)
(* with an invalid write cursor ends Aborted.  A run that is aborted or    *)
(* fails at the start of row k has therefore emitted the "Calculating      *)
(* result" report of row k (k+1 such reports in all, when there is a       *)
(* sink), immediately before its closing ABORT or ERRORS report.           *)
(***************************************************************************)
C13_ReportBeforeChecks ==
    /\ [][(pc = "RowLoop" /\ row < rowCount /\ pc' # pc) =>
             pc' = "Progress"]_vars
    /\ [][(pc = "Progress" /\ pc' # pc) =>
             /\ pc' = "AbortCheck"
             /\ pProgress => reports' = Append(reports, RowReport(row))]_vars
    /\ [][(pc = "AbortCheck" /\ pc' # pc) =>
             IF aborted THEN AbortedRun'
                        ELSE pc' = "DestCheck" /\ reports' = reports]_vars
    /\ [][(pc = "DestCheck" /\ pc' # pc) =>
             IF pDestAcc.valid THEN pc' = "ColLoop" /\ reports' = reports
                               ELSE FailedAtRowStart']_vars
    /\ []((pProgress /\ pc \in {"AbortCheck", "DestCheck"}) =>
             /\ RowReports = row + 1
             /\ LastReport = RowReport(row))
    /\ []((pProgress /\ (AbortedRun \/ FailedAtRowStart)) =>
             /\ RowReports = row + 1
             /\ Len(reports) >= 2
             /\ reports[Len(reports) - 1] = RowReport(row)
             /\ LastReport.sev = IF AbortedRun THEN "ABORT" ELSE "ERRORS")

\* cancelled at the start of the second row of two: both rows were reported
C13_Witness ==
    /\ AbortedRun
    /\ pProgress
    /\ rowCount = 2 /\ row = 1
    /\ RowReports = 2
    /\ reports[Len(reports) - 1] = Report("Calculating result", 50, "NORMAL")

\* pixel p comes before the scan position (row, col) in row-major order
ScannedBefore(p) ==
    \/ p[1] < row
    \/ InFlight /\ p[1] = row /\ p[2] < col

(***************************************************************************)
(* C14.  Cursor synchronisation: at every write the write cursor stands at *)
(* the scan loop's (row, col), which is also where the read cursor was     *)
(* last put; the write cursor only advances, one column after each pixel   *)
(* and one row after each column loop; output pixels are written in strict *)
(* row-major order, none twice and none skipped: every pixel before the    *)
(* scan position has been written exactly once and no pixel after it has   *)
(* been written.                                                           *)
(***************************************************************************)
C14_CursorsSynchronised ==
    /\ [](pc = "Write" =>
             /\ <<pDestAcc.row, pDestAcc.col>> = <<row, col>>
             /\ <<pSrcAcc.row, pSrcAcc.col>> = <<row, col>>)
    /\ [][(pDestAcc.open /\ pDestAcc' # pDestAcc) =>
             \/ pc = "NextCol" /\ pDestAcc'.row = pDestAcc.row
                               /\ pDestAcc'.col = pDestAcc.col + 1
             \/ pc = "NextRow" /\ pDestAcc'.row = pDestAcc.row + 1
                               /\ pDestAcc'.col = 0]_vars
    /\ [](\A p \in DOMAIN writes :
             /\ writes[p] <= 1
             /\ ScannedBefore(p) => writes[p] = 1
             /\ (~ScannedBefore(p) /\ ~(pc = "NextCol" /\ p = <<row, col>>))
                   => writes[p] = 0)

(***************************************************************************)
(* C15.  Read cursor stays in bounds: pixels are scanned only in rasters   *)
(* with rowCount >= 1 and colCount >= 1 (1x1, 1xN and Nx1 included), and   *)
(* for every scanned (row, col) the coordinates passed to toPixel so far   *)
(* all lie in [0, rowCount) x [0, colCount) and are, in this order, the    *)
(* leading ones of (row, nextCol), (nextRow, col), (nextRow, nextCol),     *)
(* (row, col), where nextCol and nextRow are col + 1 and row + 1 replaced  *)
(* by the last index when they would leave the raster; all four have been  *)
(* passed when the pixel is about to be written.                           *)
(***************************************************************************)
C15_ReadsInBoundsInOrder ==
    pc \in {"ReadRight", "ReadDown", "ReadLowerRight", "ReadMid", "Write",
            "NextCol"} =>
        LET nCol == IF col + 1 < colCount THEN col + 1 ELSE colCount - 1
            nRow == IF row + 1 < rowCount THEN row + 1 ELSE rowCount - 1
            order == << <<row, nCol>>, <<nRow, col>>, <<nRow, nCol>>,
                        <<row, col>> >>
        IN  /\ rowCount >= 1 /\ colCount >= 1
            /\ row \in 0 .. rowCount - 1 /\ col \in 0 .. colCount - 1
            /\ Len(reads) <= 4
            /\ \A i \in 1 .. Len(reads) :
                  /\ reads[i] = order[i]
                  /\ reads[i][1] \in 0 .. rowCount - 1
                  /\ reads[i][2] \in 0 .. colCount - 1
            /\ pc = "ReadRight" => Len(reads) = 0
            /\ pc = "ReadDown" => Len(reads) = 1
            /\ pc = "ReadLowerRight" => Len(reads) = 2
            /\ pc = "ReadMid" => Len(reads) = 3
            /\ pc = "Write" => Len(reads) = 4
            /\ pc = "NextCol" => Len(reads) >= 1

\* the upper pixel of a one-column raster of two rows: its right neighbour
\* is itself, its lower and lower-right neighbours are the pixel below
C15_Witness ==
    /\ pc = "Write"
    /\ rowCount = 2 /\ colCount = 1
    /\ row = 0 /\ col = 0
    /\ reads = << <<0, 0>>, <<1, 0>>, <<1, 0>>, <<0, 0>> >>

(***************************************************************************)
(* C16.  Write-cursor failure is fatal and checked per row: when the write *)
(* cursor is invalid at the start of row k and the run is not cancelled,   *)
(* the step after the cancellation check is the validity check, and it     *)
(* ends the run Failed, the step finalized as Failure and, with a sink,    *)
(* an ERRORS report "Unable to access the cube data." as the last report;  *)
(* no pixel of row k or of a later row has been or is written.  The check  *)
(* comes before the first write of every row: while the first pixel of a   *)
(* row is being processed the write cursor is valid and stands on it.      *)
(***************************************************************************)
C16_WriteCursorFailureIsFatal ==
    /\ [][(pc = "AbortCheck" /\ ~aborted /\ ~pDestAcc.valid /\ pc' # pc) =>
             (pc' = "DestCheck" /\ pDestAcc' = pDestAcc)]_vars
    /\ [][(pc = "DestCheck" /\ ~pDestAcc.valid /\ pc' # pc) =>
             /\ Failed'
             /\ stepResult' = "Failure"
             /\ pProgress =>
                   reports' = Append(reports,
                       Report("Unable to access the cube data.", 0, "ERRORS"))
             /\ writes' = writes /\ outData' = outData
             /\ row' = row
             /\ NoRowWrittenFrom(row)]_vars
    /\ [](FailedAtRowStart =>
             /\ ~pDestAcc.valid
             /\ NoRowWrittenFrom(row)
             /\ outArgs = OutputSpecification)
    /\ []((col = 0 /\ pc \in {"ColLoop", "ReadRight", "ReadDown",
                              "ReadLowerRight", "ReadMid", "Write", "NextCol"})
             => (pDestAcc.valid /\ <<pDestAcc.row, pDestAcc.col>> = <<row, 0>>))

\* the write cursor went invalid at the end of the first row of two: the run
\* fails at the second row's check with the first row written
C16_Witness ==
    /\ FailedAtRowStart
    /\ ~aborted
    /\ pProgress
    /\ rowCount = 2 /\ colCount = 2 /\ row = 1
    /\ RowWrittenOnce(0)
    /\ NoRowWrittenFrom(1)
    /\ LastReport = Report("Unable to access the cube data.", 0, "ERRORS")

\* the run ended because createRasterElement gave NULL
AllocationFailed ==
    /\ pc = "Done"
    /\ pSrcAcc.open
    /\ pResultCube = NoElement

(***************************************************************************)
(* C17.  Allocation failure is surfaced before scanning: the scan loop is  *)
(* never entered without an output raster; when the output raster cannot   *)
(* be created the run ends there, Failed, the step finalized as Failure    *)
(* and, with a sink, one ERRORS report "A raster cube could not be         *)
(* created." as the only report (so no "Calculating result" report); no    *)
(* pixel has been read or written, no write cursor has been obtained, and  *)
(* the run ends Failed and not Aborted even when the cancellation flag is  *)
(* set, the flag never having been looked at.                              *)
(***************************************************************************)
C17_AllocationFailureBeforeScan ==
    /\ [](pResultCube = NoElement =>
             pc \in {"Start", "Validate", "Acquire", "Done"})
    /\ [][(pc = "Acquire" /\ pc' # "RowLoop" /\ pc' # pc) =>
             AllocationFailed']_vars
    /\ [](AllocationFailed =>
             /\ Failed
             /\ stepResult = "Failure"
             /\ reports = IF pProgress
                          THEN <<Report("A raster cube could not be created.",
                                        0, "ERRORS")>>
                          ELSE <<>>
             /\ RowReports = 0
             /\ reads = <<>>
             /\ outData = NoPixels
             /\ DOMAIN writes = {}
             /\ ~pDestAcc.open
             /\ row = 0 /\ col = 0
             /\ outArgs = OutputSpecification)

\* allocation fails for a 2x2 raster after the host has asked to cancel:
\* the run is Failed, not Aborted
C17_Witness ==
    /\ AllocationFailed
    /\ Failed
    /\ aborted
    /\ pProgress
    /\ rowCount = 2 /\ colCount = 2
    /\ Len(reports) = 1

(***************************************************************************)
(* The progress percent for large row counts.  Line 159 depends on row and *)
(* rowCount only, so the scan is taken up at row `row` of a raster with    *)
(* many rows and no columns, whose rows have no pixel work; `reports`      *)
(* holds the reports from there on.  The row counts lie around             *)
(* 42949673 = ceiling(2^32 / 100), the first row whose product row * 100   *)
(* passes 2^32.                                                            *)
(***************************************************************************)
MaxPercentReports == 3

PercentRowCounts == {3, 42949672, 42949673, 42949674, 85899346, 2147483647}

PercentStartRows(rows) == {r \in {0, 42949671, rows - 2} : r >= 0 /\ r < rows}

InitPercent ==
    /\ pc = "RowLoop"
    /\ pInArgList = TRUE
    /\ pOutArgList = TRUE
    /\ pProgress = TRUE
    /\ pCube = TRUE
    /\ dataType \in {"INT1UBYTE", "FLT8BYTES"}
    /\ rowCount \in PercentRowCounts
    /\ colCount = 0
    /\ inData = NoPixels
    /\ inData0 = inData
    /\ aborted = FALSE
    /\ pSrcAcc = Accessor(TRUE, 0, 0)
    /\ row \in PercentStartRows(rowCount)
    /\ pDestAcc = Accessor(TRUE, row, 0)
    /\ col = 0
    /\ rightVal = 0
    /\ downVal = 0
    /\ lowerRightVal = 0
    /\ midVal = 0
    /\ reads = <<>>
    /\ pResultCube = NewResultCube
    /\ outData = NoPixels
    /\ writes = [p \in {} |-> 0]
    /\ reports = <<>>
    /\ stepResult = "None"
    /\ retval = "none"
    /\ outArgs = OutputSpecification
    /\ view = "none"
    /\ accessorFailed = FALSE
    /\ srcFailures = 0

\* the row loop, followed for MaxPercentReports rows and at its exit
PercentRowLoop ==
    /\ Len(reports) < MaxPercentReports \/ row >= rowCount
    /\ RowLoop

NextPercent ==
    \/ PercentRowLoop
    \/ RowProgress
    \/ AbortCheck
    \/ DestCheck
    \/ ColLoop
    \/ NextRow
    \/ CreateView
    \/ Finish

SpecPercent == InitPercent /\ [][NextPercent]_vars

\* <<floor(k * r / n), (k * r) % n>> for 0 <= r < n, by doubling, with no
\* intermediate value above n
RECURSIVE MulDivMod(_, _, _)
MulDivMod(k, r, n) ==
    IF k = 0 THEN <<0, 0>>
    ELSE IF k % 2 = 0
    THEN LET h == MulDivMod(k \div 2, r, n)
         IN  IF h[2] >= n - h[2]
             THEN <<2 * h[1] + 1, h[2] - (n - h[2])>>
             ELSE <<2 * h[1], h[2] + h[2]>>
    ELSE LET h == MulDivMod(k - 1, r, n)
         IN  IF h[2] >= n - r
             THEN <<h[1] + 1, h[2] - (n - r)>>
             ELSE <<h[1], h[2] + r>>

\* floor(r * 100 / n) in the integers
ExactPercent(r, n) == MulDivMod(100, r, n)[1]

\* the row whose report of line 159 came last
LastReportedRow ==
    IF InRow \/ pc = "Crashed" \/ AbortedRun \/ FailedAtRowStart
    THEN row
    ELSE row - 1

(***************************************************************************)
(* C18.  Progress percent is well-formed: every percent value reported     *)
(* during scanning equals floor(row * 100 / rowCount), lies in 0..99, and  *)
(* is not below the value reported for the row before, for every rowCount  *)
(* of the 32-bit unsigned row counter.                                     *)
(***************************************************************************)
C18_PercentWellFormed ==
    LET n == RowReports
    IN  \A i \in 1 .. n :
           /\ reports[i].msg = "Calculating result"
           /\ reports[i].percent =
                 ExactPercent(LastReportedRow - (n - i), rowCount)
           /\ reports[i].percent \in 0 .. 99
           /\ i < n => reports[i].percent <= reports[i + 1].percent

(***************************************************************************)
(* C19.  The input raster is never modified: at every point of every run,  *)
(* and so after a run that ended Completed, Aborted or Failed, every       *)
(* sample of the input raster has the value it had before the run.  The    *)
(* only storage written is the output pixel at the write cursor's slot:    *)
(* once the output raster exists, a step changes at most the one output    *)
(* pixel the write cursor stands on, and does so only in the store of     *)
(* line 63.                                                                *)
(***************************************************************************)
C19_InputNeverModified ==
    /\ [](inData = inData0)
    /\ [][inData' = inData /\ inData0' = inData0]_vars
    /\ [](~Running => inData = inData0)
    /\ [][(pc # "Acquire" /\ (outData' # outData \/ writes' # writes)) =>
             /\ pc = "Write"
             /\ DOMAIN outData' = DOMAIN outData
             /\ DOMAIN writes' = DOMAIN writes
             /\ <<pDestAcc.row, pDestAcc.col>> \in DOMAIN outData
             /\ writes'[<<pDestAcc.row, pDestAcc.col>>]
                   = writes[<<pDestAcc.row, pDestAcc.col>>] + 1
             /\ \A p \in DOMAIN outData :
                   p # <<pDestAcc.row, pDestAcc.col>> =>
                      (outData'[p] = outData[p] /\ writes'[p] = writes[p])]_vars

\* a 2x2 run cancelled after its first row: two output pixels written, the
\* input as it was
C19_Witness ==
    /\ AbortedRun
    /\ rowCount = 2 /\ colCount = 2 /\ row = 1
    /\ inData = Raster(<<10, 20, 30, 40>>, 2, 2)
    /\ inData = inData0
    /\ writes[<<0, 0>>] = 1 /\ writes[<<0, 1>>] = 1
    /\ writes[<<1, 0>>] = 0 /\ writes[<<1, 1>>] = 0
    /\ outData[<<0, 0>>] # Unwritten

====
